---- MODULE Spec2Model ----
(***************************************************************************)
(* Model of the lemonpie lexer (src/frontend/lexer.rs).                    *)
(*                                                                         *)
(* The state is that of one Lexer and of the lex() call that consumes it:  *)
(* the borrowed byte buffer src, the cursor i, the local vector ret of     *)
(* lex(), and how the call ended.  One step of the model is one iteration  *)
(* of the token loop of lex(): a whole parse_token() call (whitespace      *)
(* skipping, dispatch, the sub-scanner) and what lex() does with its       *)
(* result.  Bytes are their ASCII codes; the cursor is 0-based as in the   *)
(* code, so the byte under cursor j is src[j + 1].                         *)
(***************************************************************************)
EXTENDS Integers, Sequences, FiniteSets, TLC

(***************************************************************************)
(* Bounds of the exploration.                                              *)
(***************************************************************************)
MaxLen == 4
MaxTokens == 8

(***************************************************************************)
(* Byte values named in the source.                                        *)
(***************************************************************************)
NUL == 0
Tab == 9
LineFeed == 10
FormFeed == 12
CarriageReturn == 13
Space == 32
Exclamation == 33
DoubleQuote == 34
Dollar == 36
Percent == 37
Ampersand == 38
SingleQuote == 39
LParen == 40
RParen == 41
Star == 42
Plus == 43
Comma == 44
Minus == 45
Dot == 46
Slash == 47
Digit0 == 48
Digit9 == 57
Colon == 58
Semicolon == 59
Smaller == 60
Equal == 61
Greater == 62
Question == 63
At == 64
UpperA == 65
UpperZ == 90
LBracket == 91
RBracket == 93
Underscore == 95
LowerA == 97
LowerZ == 122
LBrace == 123
Pipe == 124
RBrace == 125
Wavey == 126

(***************************************************************************)
(* Spellings used by the keyword table and by the sample sources: the      *)
(* ASCII codes of the letters.                                             *)
(***************************************************************************)
KwFn == <<102, 110>>
KwLet == <<108, 101, 116>>
KwVar == <<118, 97, 114>>
KwUndefined == <<117, 110, 100, 101, 102, 105, 110, 101, 100>>
KwIf == <<105, 102>>
KwElif == <<101, 108, 105, 102>>
KwElse == <<101, 108, 115, 101>>
KwMod == <<109, 111, 100>>
KwStruct == <<115, 116, 114, 117, 99, 116>>

(***************************************************************************)
(* Messages.                                                               *)
(***************************************************************************)
IllegalCharacter == "Illegal Character"
UnterminatedStringLiteral == "String Literal Has No End"
InvalidCharacterLiteral == "Invalid Character Literal"
UnreachableCharacter == "Unreachable character was reached in function parse_starts_with_sign"
IndexOutOfBounds == "index out of bounds"
NotYetImplemented == "not yet implemented"
InvalidUtf8 == "called unwrap on an Err value: Utf8Error"

VARIABLES src, i, ret, status, message

vars == <<src, i, ret, status, message>>

(***************************************************************************)
(* Tokens.  Every token is a record of a kind and a text; the zero-data    *)
(* variants have the empty text.                                           *)
(***************************************************************************)
Tok(kind, text) == [kind |-> kind, text |-> text]

EOF == Tok("EOF", <<>>)
Sign(text) == Tok("Sign", text)
Paren(byte) == Tok("Paren", <<byte>>)
NumLit(text) == Tok("NumLit", text)
CharLit(byte) == Tok("CharLit", <<byte>>)
StrLit(bytes) == Tok("StrLit", bytes)
Ident(text) == Tok("Ident", text)
NoToken == Tok("None", <<>>)

(***************************************************************************)
(* What a call of a scanner does: it returns a token ("ok"), returns a     *)
(* LexingError ("err") or panics ("panic"); i is the cursor it leaves.     *)
(***************************************************************************)
Ok(j, tok) == [outcome |-> "ok", i |-> j, tok |-> tok, message |-> ""]
Err(j, msg) == [outcome |-> "err", i |-> j, tok |-> NoToken, message |-> msg]
Panic(j, msg) == [outcome |-> "panic", i |-> j, tok |-> NoToken, message |-> msg]

(***************************************************************************)
(* Cursor primitives.  Indexing a slice out of its bounds panics.          *)
(***************************************************************************)
InBounds(j) == j < Len(src)
Ch(j) == src[j + 1]
ChsInBounds(j, count) == j + count <= Len(src)
Chs(j, count) == SubSeq(src, j + 1, j + count)
Slice(from, to) == SubSeq(src, from + 1, to)

(***************************************************************************)
(* u8 classification methods of the standard library.                      *)
(***************************************************************************)
IsAsciiDigit(b) == Digit0 <= b /\ b <= Digit9
IsAsciiAlphabetic(b) == (UpperA <= b /\ b <= UpperZ) \/ (LowerA <= b /\ b <= LowerZ)
IsAsciiAlphanumeric(b) == IsAsciiAlphabetic(b) \/ IsAsciiDigit(b)
IsAsciiWhitespaceNoFormFeed(b) == b \in {Space, Tab, LineFeed, CarriageReturn}

IsAsciiWhitespace(b) == b \in {Space, Tab, LineFeed, FormFeed, CarriageReturn}

(***************************************************************************)
(* from_utf8(..).unwrap() on a span: the spans the scanners pass are runs  *)
(* of ASCII bytes, which are valid UTF-8 and convert to the same text; a   *)
(* span holding a byte of a multi-byte sequence is treated as invalid.     *)
(***************************************************************************)
IsUtf8(span) == \A k \in 1..Len(span) : span[k] < 128

OOB == -1

(***************************************************************************)
(* skip_ws: the cursor after the run of ASCII whitespace starting at j.    *)
(***************************************************************************)
RECURSIVE SkipWs(_)
SkipWs(j) ==
    IF ~InBounds(j) THEN OOB
    ELSE IF IsAsciiWhitespace(Ch(j)) THEN SkipWs(j + 1)
    ELSE j

(***************************************************************************)
(* parse_ident_like.                                                       *)
(***************************************************************************)
RECURSIVE IdentRunEnd(_)
IdentRunEnd(j) ==
    IF ~InBounds(j) THEN OOB
    ELSE IF IsAsciiAlphanumeric(Ch(j)) \/ Ch(j) = Underscore THEN IdentRunEnd(j + 1)
    ELSE j

IdentLikeTokenPrefix(span) ==
    IF Len(span) >= 2 /\ SubSeq(span, 1, 2) = KwFn THEN Tok("Fn", <<>>) ELSE Ident(span)

IdentLikeToken(span) ==
    CASE span = KwFn -> Tok("Fn", <<>>)
      [] span = KwLet -> Tok("Let", <<>>)
      [] span = KwVar -> Tok("Var", <<>>)
      [] span = KwUndefined -> Tok("Undefined", <<>>)
      [] span = KwIf -> Tok("If", <<>>)
      [] span = KwElif -> Tok("Elif", <<>>)
      [] span = KwElse -> Tok("Else", <<>>)
      [] span = KwMod -> Tok("Mod", <<>>)
      [] span = KwStruct -> Tok("Struct", <<>>)
      [] OTHER -> Ident(span)

ParseIdentLike(prev_i) ==
    LET e == IdentRunEnd(prev_i) IN
    IF e = OOB THEN Panic(Len(src), IndexOutOfBounds)
    ELSE IF IdentLikeToken(Slice(prev_i, e)).kind = "Ident" /\ ~IsUtf8(Slice(prev_i, e))
         THEN Panic(e, InvalidUtf8)
    ELSE Ok(e, IdentLikeToken(Slice(prev_i, e)))

(***************************************************************************)
(* parse_numeric_literal.                                                  *)
(***************************************************************************)
RECURSIVE DigitRunEnd(_)
DigitRunEnd(j) ==
    IF ~InBounds(j) THEN OOB
    ELSE IF IsAsciiDigit(Ch(j)) THEN DigitRunEnd(j + 1)
    ELSE j

NumLitOf(prev_i, e) ==
    IF ~IsUtf8(Slice(prev_i, e)) THEN Panic(e, InvalidUtf8)
    ELSE Ok(e, NumLit(Slice(prev_i, e)))

ParseNumericLiteralEagerDot(prev_i) ==
    LET e1 == DigitRunEnd(prev_i) IN
    IF e1 = OOB THEN Panic(Len(src), IndexOutOfBounds)
    ELSE IF Ch(e1) # Dot THEN NumLitOf(prev_i, e1)
    ELSE LET e2 == DigitRunEnd(e1 + 1) IN
         IF e2 = OOB THEN Panic(Len(src), IndexOutOfBounds)
         ELSE NumLitOf(prev_i, e2)

ParseNumericLiteralNoFraction(prev_i) ==
    LET e1 == DigitRunEnd(prev_i) IN
    IF e1 = OOB THEN Panic(Len(src), IndexOutOfBounds)
    ELSE NumLitOf(prev_i, e1)

ParseNumericLiteral(prev_i) ==
    LET e1 == DigitRunEnd(prev_i) IN
    IF e1 = OOB THEN Panic(Len(src), IndexOutOfBounds)
    ELSE IF Ch(e1) # Dot THEN NumLitOf(prev_i, e1)
    ELSE IF ~InBounds(e1 + 1) THEN Panic(e1, IndexOutOfBounds)
    ELSE IF ~IsAsciiDigit(Ch(e1 + 1)) THEN NumLitOf(prev_i, e1)
    ELSE LET e2 == DigitRunEnd(e1 + 1) IN
         IF e2 = OOB THEN Panic(Len(src), IndexOutOfBounds)
         ELSE NumLitOf(prev_i, e2)

(***************************************************************************)
(* parse_string_character: todo!().                                        *)
(***************************************************************************)
ParseStringCharacter(j) == Panic(j, NotYetImplemented)

(***************************************************************************)
(* parse_string_literal: j is the cursor after the opening quote, acc the  *)
(* bytes decoded so far.  The closing quote ends the loop and is left      *)
(* under the cursor.                                                       *)
(***************************************************************************)
RECURSIVE StringLoop(_, _)
StringLoop(j, acc) ==
    IF ~InBounds(j) THEN Panic(j, IndexOutOfBounds)
    ELSE IF Ch(j) = DoubleQuote THEN Ok(j, StrLit(acc))
    ELSE IF Ch(j) = NUL THEN Err(j, UnterminatedStringLiteral)
    ELSE LET c == ParseStringCharacter(j) IN
         IF c.outcome = "panic" THEN c
         ELSE StringLoop(c.i, Append(acc, c.tok.text[1]))

ParseStringLiteral(start) == StringLoop(start + 1, <<>>)

(***************************************************************************)
(* parse_character_literal.                                                *)
(***************************************************************************)
ParseCharacterLiteral(start) ==
    LET c == ParseStringCharacter(start + 1) IN
    IF c.outcome = "panic" THEN c
    ELSE IF ~InBounds(c.i + 1) THEN Panic(c.i + 1, IndexOutOfBounds)
    ELSE IF Ch(c.i + 1) # SingleQuote THEN Err(c.i + 1, InvalidCharacterLiteral)
    ELSE Ok(c.i + 1, CharLit(c.tok.text[1]))

(***************************************************************************)
(* The parse_starts_with_* helpers: j is the cursor, on the leading byte.  *)
(* chs(count) borrows src[j .. j + count] and panics when that range ends  *)
(* after the buffer.                                                       *)
(***************************************************************************)
ParseStartsWithPlusSkips(j) ==
    IF ~ChsInBounds(j, 2) THEN Panic(j, IndexOutOfBounds)
    ELSE IF Chs(j, 2) = <<Plus, Plus>> THEN Ok(j + 2, Sign(<<Plus, Plus>>))
    ELSE IF Chs(j, 2) = <<Plus, Equal>> THEN Ok(j + 2, Sign(<<Plus, Equal>>))
    ELSE Ok(j + 2, Sign(<<Plus>>))

ParseStartsWithPlus(j) ==
    IF ~ChsInBounds(j, 2) THEN Panic(j, IndexOutOfBounds)
    ELSE IF Chs(j, 2) = <<Plus, Plus>> THEN Ok(j + 2, Sign(<<Plus, Plus>>))
    ELSE IF Chs(j, 2) = <<Plus, Equal>> THEN Ok(j + 2, Sign(<<Plus, Equal>>))
    ELSE Ok(j + 1, Sign(<<Plus>>))

ParseStartsWithMinus(j) ==
    IF ~ChsInBounds(j, 2) THEN Panic(j, IndexOutOfBounds)
    ELSE IF Chs(j, 2) = <<Minus, Minus>> THEN Ok(j + 2, Sign(<<Minus, Minus>>))
    ELSE IF Chs(j, 2) = <<Minus, Equal>> THEN Ok(j + 2, Sign(<<Minus, Equal>>))
    ELSE Ok(j + 1, Sign(<<Minus>>))

ParseStartsWithStar(j) ==
    IF ~ChsInBounds(j, 2) THEN Panic(j, IndexOutOfBounds)
    ELSE IF Chs(j, 2) = <<Star, Equal>> THEN Ok(j + 2, Sign(<<Star, Equal>>))
    ELSE Ok(j + 1, Sign(<<Star>>))

ParseStartsWithDivide(j) ==
    IF ~ChsInBounds(j, 2) THEN Panic(j, IndexOutOfBounds)
    ELSE IF Chs(j, 2) = <<Slash, Equal>> THEN Ok(j + 2, Sign(<<Slash, Equal>>))
    ELSE Ok(j + 1, Sign(<<Slash>>))

ParseStartsWithModulus(j) ==
    IF ~ChsInBounds(j, 2) THEN Panic(j, IndexOutOfBounds)
    ELSE IF Chs(j, 2) = <<Percent, Equal>> THEN Ok(j + 2, Sign(<<Percent, Equal>>))
    ELSE Ok(j + 1, Sign(<<Percent>>))

ParseStartsWithExclamationMark(j) ==
    IF ~ChsInBounds(j, 2) THEN Panic(j, IndexOutOfBounds)
    ELSE IF Chs(j, 2) = <<Exclamation, Equal>> THEN Ok(j + 2, Sign(<<Exclamation, Equal>>))
    ELSE Ok(j + 1, Sign(<<Exclamation>>))

ParseStartsWithColonUnread(j) ==
    IF ~ChsInBounds(j, 2) THEN Panic(j, IndexOutOfBounds)
    ELSE IF Chs(j, 2) = <<Colon, Equal>> THEN Ok(j + 2, Sign(<<Colon, Equal>>))
    ELSE IF Chs(j, 2) = <<Colon, Colon>> THEN Ok(j + 2, Sign(<<Colon, Colon>>))
    ELSE Ok(IF j > 0 THEN j - 1 ELSE j, Sign(<<Colon>>))

ParseStartsWithColon(j) ==
    IF ~ChsInBounds(j, 2) THEN Panic(j, IndexOutOfBounds)
    ELSE IF Chs(j, 2) = <<Colon, Equal>> THEN Ok(j + 2, Sign(<<Colon, Equal>>))
    ELSE IF Chs(j, 2) = <<Colon, Colon>> THEN Ok(j + 2, Sign(<<Colon, Colon>>))
    ELSE Ok(j, Sign(<<Colon>>))

ParseStartsWithEqual(j) ==
    IF ~ChsInBounds(j, 2) THEN Panic(j, IndexOutOfBounds)
    ELSE IF Chs(j, 2) = <<Equal, Equal>> THEN Ok(j + 2, Sign(<<Equal, Equal>>))
    ELSE IF Chs(j, 2) = <<Equal, Greater>> THEN Ok(j + 2, Sign(<<Equal, Greater>>))
    ELSE Ok(j + 1, Sign(<<Equal>>))

ParseStartsWithAmpersand(j) ==
    IF ~ChsInBounds(j, 2) THEN Panic(j, IndexOutOfBounds)
    ELSE IF Chs(j, 2) = <<Ampersand, Ampersand>> THEN Ok(j + 2, Sign(<<Ampersand, Ampersand>>))
    ELSE Ok(j + 1, Sign(<<Ampersand>>))

ParseStartsWithPipe(j) ==
    IF ~ChsInBounds(j, 2) THEN Panic(j, IndexOutOfBounds)
    ELSE IF Chs(j, 2) = <<Pipe, Pipe>> THEN Ok(j + 2, Sign(<<Pipe, Pipe>>))
    ELSE Ok(j + 1, Sign(<<Pipe>>))

ParseStartsWithWavey(j) ==
    IF ~ChsInBounds(j, 2) THEN Panic(j, IndexOutOfBounds)
    ELSE IF Chs(j, 2) = <<Wavey, Equal>> THEN Ok(j + 2, Sign(<<Wavey, Equal>>))
    ELSE Ok(j + 1, Sign(<<Wavey>>))

ParseStartsWithSmaller(j) ==
    IF ~ChsInBounds(j, 2) THEN Panic(j, IndexOutOfBounds)
    ELSE IF Chs(j, 2) = <<Smaller, Equal>> THEN Ok(j + 2, Sign(<<Smaller, Equal>>))
    ELSE Ok(j + 1, Sign(<<Smaller>>))

ParseStartsWithGreater(j) ==
    IF ~ChsInBounds(j, 2) THEN Panic(j, IndexOutOfBounds)
    ELSE IF Chs(j, 2) = <<Greater, Equal>> THEN Ok(j + 2, Sign(<<Greater, Equal>>))
    ELSE Ok(j + 1, Sign(<<Greater>>))

ParseStartsWithDotShortFirst(j) ==
    IF ~ChsInBounds(j, 2) THEN Panic(j, IndexOutOfBounds)
    ELSE IF Chs(j, 2) = <<Dot, Dot>> THEN Ok(j + 2, Sign(<<Dot, Dot>>))
    ELSE IF ~ChsInBounds(j, 3) THEN Panic(j, IndexOutOfBounds)
    ELSE IF Chs(j, 3) = <<Dot, Dot, Equal>> THEN Ok(j + 3, Sign(<<Dot, Dot, Equal>>))
    ELSE Ok(j + 1, Sign(<<Dot>>))

ParseStartsWithDot(j) ==
    IF ~ChsInBounds(j, 3) THEN Panic(j, IndexOutOfBounds)
    ELSE IF Chs(j, 3) = <<Dot, Dot, Equal>> THEN Ok(j + 3, Sign(<<Dot, Dot, Equal>>))
    ELSE IF ~ChsInBounds(j, 2) THEN Panic(j, IndexOutOfBounds)
    ELSE IF Chs(j, 2) = <<Dot, Dot>> THEN Ok(j + 2, Sign(<<Dot, Dot>>))
    ELSE Ok(j + 1, Sign(<<Dot>>))

(***************************************************************************)
(* parse_starts_with_sign: the arms for , ? $ @ return the token and leave *)
(* the cursor where it is.                                                 *)
(***************************************************************************)
ParseStartsWithSign(j) ==
    CASE Ch(j) = Plus -> ParseStartsWithPlus(j)
      [] Ch(j) = Minus -> ParseStartsWithMinus(j)
      [] Ch(j) = Star -> ParseStartsWithStar(j)
      [] Ch(j) = Slash -> ParseStartsWithDivide(j)
      [] Ch(j) = Percent -> ParseStartsWithModulus(j)
      [] Ch(j) = Exclamation -> ParseStartsWithExclamationMark(j)
      [] Ch(j) = Colon -> ParseStartsWithColon(j)
      [] Ch(j) = Equal -> ParseStartsWithEqual(j)
      [] Ch(j) = Ampersand -> ParseStartsWithAmpersand(j)
      [] Ch(j) = Pipe -> ParseStartsWithPipe(j)
      [] Ch(j) = Wavey -> ParseStartsWithWavey(j)
      [] Ch(j) = Smaller -> ParseStartsWithSmaller(j)
      [] Ch(j) = Greater -> ParseStartsWithGreater(j)
      [] Ch(j) = Dot -> ParseStartsWithDot(j)
      [] Ch(j) = Comma -> Ok(j, Sign(<<Comma>>))
      [] Ch(j) = Question -> Ok(j, Sign(<<Question>>))
      [] Ch(j) = Dollar -> Ok(j, Sign(<<Dollar>>))
      [] Ch(j) = At -> Ok(j, Sign(<<At>>))
      [] OTHER -> Err(j, UnreachableCharacter)

(***************************************************************************)
(* The byte classes of the dispatch of parse_token.                        *)
(***************************************************************************)
IdentStart(b) == IsAsciiAlphabetic(b) \/ b = Underscore
ParenBytes == {LParen, RParen, LBracket, RBracket, LBrace, RBrace}
SignBytesWithSemicolon ==
    {Plus, Minus, Star, Slash, Percent, Exclamation, Colon, Equal, Ampersand,
     Pipe, Wavey, Smaller, Greater, Dot, Comma, Question, Dollar, At, Semicolon}

SignBytes ==
    {Plus, Minus, Star, Slash, Percent, Exclamation, Colon, Equal, Ampersand,
     Pipe, Wavey, Smaller, Greater, Dot, Comma, Question, Dollar, At}

(***************************************************************************)
(* parse_token called with the cursor at j.                                *)
(***************************************************************************)
ParseTokenEofAdvances(j) ==
    LET b == SkipWs(j) IN
    IF b = OOB THEN Panic(Len(src), IndexOutOfBounds)
    ELSE CASE IdentStart(Ch(b)) -> ParseIdentLike(b)
           [] IsAsciiDigit(Ch(b)) -> ParseNumericLiteral(b)
           [] Ch(b) = DoubleQuote -> ParseStringLiteral(b)
           [] Ch(b) = SingleQuote -> ParseCharacterLiteral(b)
           [] Ch(b) \in ParenBytes -> Ok(b + 1, Paren(Ch(b)))
           [] Ch(b) \in SignBytes -> ParseStartsWithSign(b)
           [] Ch(b) = NUL -> Ok(b + 1, EOF)
           [] OTHER -> Err(b, IllegalCharacter)

ParseToken(j) ==
    LET b == SkipWs(j) IN
    IF b = OOB THEN Panic(Len(src), IndexOutOfBounds)
    ELSE CASE IdentStart(Ch(b)) -> ParseIdentLike(b)
           [] IsAsciiDigit(Ch(b)) -> ParseNumericLiteral(b)
           [] Ch(b) = DoubleQuote -> ParseStringLiteral(b)
           [] Ch(b) = SingleQuote -> ParseCharacterLiteral(b)
           [] Ch(b) \in ParenBytes -> Ok(b + 1, Paren(Ch(b)))
           [] Ch(b) \in SignBytes -> ParseStartsWithSign(b)
           [] Ch(b) = NUL -> Ok(b, EOF)
           [] OTHER -> Err(b, IllegalCharacter)

(***************************************************************************)
(* The bytes a parse_token call indexes.  Each ...ReadEnd is the cursor    *)
(* after the last byte that the call reads or tries to read: ch() reads    *)
(* the byte under the cursor, chs(count) the count bytes from it.          *)
(***************************************************************************)
IdentLikeReadEnd(b) ==
    IF IdentRunEnd(b) = OOB THEN Len(src) + 1 ELSE IdentRunEnd(b) + 1

NumericLiteralReadEnd(b) ==
    LET e1 == DigitRunEnd(b) IN
    IF e1 = OOB THEN Len(src) + 1
    ELSE IF Ch(e1) # Dot THEN e1 + 1
    ELSE IF ~InBounds(e1 + 1) THEN e1 + 2
    ELSE IF ~IsAsciiDigit(Ch(e1 + 1)) THEN e1 + 2
    ELSE IF DigitRunEnd(e1 + 1) = OOB THEN Len(src) + 1
    ELSE DigitRunEnd(e1 + 1) + 1

\* The first ch() of the loop is the last read: it breaks, fails, or
\* parse_string_character panics.
StringLiteralReadEnd(b) == b + 2

\* parse_string_character panics before any further read.
CharacterLiteralReadEnd(b) == b + 1

StartsWithSignReadEnd(b) ==
    CASE Ch(b) = Dot -> b + 3
      [] Ch(b) \in {Comma, Question, Dollar, At} -> b + 1
      [] OTHER -> b + 2

ParseTokenReadEnd(j) ==
    LET b == SkipWs(j) IN
    IF b = OOB THEN Len(src) + 1
    ELSE CASE IdentStart(Ch(b)) -> IdentLikeReadEnd(b)
           [] IsAsciiDigit(Ch(b)) -> NumericLiteralReadEnd(b)
           [] Ch(b) = DoubleQuote -> StringLiteralReadEnd(b)
           [] Ch(b) = SingleQuote -> CharacterLiteralReadEnd(b)
           [] Ch(b) \in SignBytes -> StartsWithSignReadEnd(b)
           [] OTHER -> b + 1

(***************************************************************************)
(* The loop condition of lex(): the last token pushed is not EOF.          *)
(***************************************************************************)
LexContinuesInverted(tokens) == tokens[Len(tokens)] = EOF

LexContinues(tokens) == tokens[Len(tokens)] # EOF

(***************************************************************************)
(* The sources explored: every text of at most MaxLen bytes over Alphabet, *)
(* and the sample sources, each followed by the sentinel that main()       *)
(* pushes.                                                                 *)
(***************************************************************************)
Alphabet ==
    {NUL, Space, 102, 110, 49, Dot, Equal, Plus, Colon, Comma, DoubleQuote,
     SingleQuote, Semicolon, LParen}

Example ==
    <<108, 101, 116, Space, 120, Space, Colon, Equal, Space, 51, Dot, 49, 52,
      Space, Plus, Space, 121, Semicolon>>

Keywords ==
    {KwFn, KwLet, KwVar, KwUndefined, KwIf, KwElif, KwElse, KwMod, KwStruct}

Samples ==
    {Example}
    \cup Keywords
    \cup {kw \o <<120>> : kw \in Keywords}
    \cup {<<b>> : b \in SignBytes \cup ParenBytes}
    \cup {<<b, Equal>> : b \in SignBytes}
    \cup {<<b, b>> : b \in SignBytes}
    \cup {<<49, Dot, Dot, 49>>, <<49, Dot, Dot, Equal, 49>>,
          <<49, Dot, 49, Dot, 49>>, <<49, Dot, 50, Dot, 51>>,
          <<DoubleQuote, 97, 98, 99>>,
          <<SingleQuote, 97, SingleQuote>>, <<Tab, LineFeed, FormFeed, CarriageReturn>>}

Texts == UNION {[1..n -> Alphabet] : n \in 0..MaxLen} \cup Samples

Init ==
    /\ src \in {t \o <<NUL>> : t \in Texts}
    /\ i = 0
    /\ ret = <<>>
    /\ status = "scanning"
    /\ message = ""

(***************************************************************************)
(* lex(): one iteration of the token loop.  The call of parse_token runs   *)
(* to its end within the step.                                             *)
(***************************************************************************)
Running == status = "scanning" /\ Len(ret) < MaxTokens

\* parse_token returned a token other than EOF: it is pushed and the loop goes on.
LexPush ==
    /\ Running
    /\ ParseToken(i).outcome = "ok"
    /\ LexContinues(Append(ret, ParseToken(i).tok))
    /\ ret' = Append(ret, ParseToken(i).tok)
    /\ i' = ParseToken(i).i
    /\ UNCHANGED <<src, status, message>>

\* parse_token returned EOF: it is pushed, the loop ends and lex() returns Ok(ret).
LexReturn ==
    /\ Running
    /\ ParseToken(i).outcome = "ok"
    /\ ~LexContinues(Append(ret, ParseToken(i).tok))
    /\ ret' = Append(ret, ParseToken(i).tok)
    /\ i' = ParseToken(i).i
    /\ status' = "done"
    /\ UNCHANGED <<src, message>>

LexFailKeepsTokens ==
    /\ status = "scanning" /\ Len(ret) < MaxTokens
    /\ ParseToken(i).outcome = "err"
    /\ i' = ParseToken(i).i
    /\ status' = "error"
    /\ message' = ParseToken(i).message
    /\ UNCHANGED <<src, ret>>

\* parse_token returned an error: the ? operator returns it from lex(), and ret is dropped.
LexFail ==
    /\ Running
    /\ ParseToken(i).outcome = "err"
    /\ ret' = <<>>
    /\ i' = ParseToken(i).i
    /\ status' = "error"
    /\ message' = ParseToken(i).message
    /\ UNCHANGED src

\* parse_token panicked: the thread unwinds, lex() returns nothing, and ret is dropped.
LexPanic ==
    /\ Running
    /\ ParseToken(i).outcome = "panic"
    /\ ret' = <<>>
    /\ i' = ParseToken(i).i
    /\ status' = "panic"
    /\ message' = ParseToken(i).message
    /\ UNCHANGED src

Next == LexPush \/ LexReturn \/ LexFail \/ LexPanic

Spec == Init /\ [][Next]_vars

\* The same program, with the loop of lex() running as long as it can.
FairSpec == Spec /\ WF_vars(Next)

TypeOK ==
    /\ i \in 0..Len(src)
    /\ Len(ret) <= MaxTokens
    /\ status \in {"scanning", "done", "error", "panic"}

(***************************************************************************)
(* Vocabulary of the properties, written from the tables of the design     *)
(* document and not from the scanners above.                               *)
(***************************************************************************)
\* The cursor at which the sub-scanner of the next parse_token call starts.
Boundary == SkipWs(i)

\* A step in which parse_token returned a token, and that token.
Emits == Len(ret') = Len(ret) + 1
Emitted == ret'[Len(ret')]

SignLeadingBytes == {43, 45, 42, 47, 37, 33, 58, 61, 38, 124, 126, 60, 62, 46, 44, 63, 36, 64}
BracketBytes == {40, 41, 91, 93, 123, 125}
LetterBytes == (65..90) \cup (97..122)
DigitBytes == 48..57

\* The catalog of operator and punctuation spellings, by leading byte.
Catalog ==
    {<<43, 43>>, <<43, 61>>, <<43>>, <<45, 45>>, <<45, 61>>, <<45>>,
     <<42, 61>>, <<42>>, <<47, 61>>, <<47>>, <<37, 61>>, <<37>>,
     <<33, 61>>, <<33>>, <<58, 61>>, <<58, 58>>, <<58>>,
     <<61, 61>>, <<61, 62>>, <<61>>, <<38, 38>>, <<38>>,
     <<124, 124>>, <<124>>, <<126, 61>>, <<126>>, <<60, 61>>, <<60>>,
     <<62, 61>>, <<62>>, <<46, 46, 61>>, <<46, 46>>, <<46>>,
     <<44>>, <<63>>, <<36>>, <<64>>}

\* The spelling sp is what the source holds at cursor j.
IsPrefixAt(sp, j) ==
    /\ j + Len(sp) <= Len(src)
    /\ \A k \in 1..Len(sp) : src[j + k] = sp[k]

\* The longest spelling of the catalog that the source holds at cursor j.
LongestSpellingAt(j) ==
    CHOOSE sp \in Catalog :
        /\ IsPrefixAt(sp, j)
        /\ \A other \in Catalog : IsPrefixAt(other, j) => Len(other) <= Len(sp)

(***************************************************************************)
(* C1: every branch of the sign scanner that returns a token leaves the    *)
(* cursor strictly after the leading byte it started on, and at least as   *)
(* many bytes further as the spelling it emits is long.                    *)
(***************************************************************************)
C1_SignAdvances ==
    [][(status = "scanning" /\ Ch(Boundary) \in SignLeadingBytes /\ Emits)
          => (i' > Boundary /\ i' >= Boundary + Len(Emitted.text))]_vars

(***************************************************************************)
(* C2: on every buffer that ends with the sentinel, the token loop of      *)
(* lex() comes to an end (a panic counted as an end too): parse_token is   *)
(* not called forever.                                                     *)
(***************************************************************************)
C2_LexTerminates == <>(status # "scanning")

(***************************************************************************)
(* C3: with the sentinel in place no read of the buffer is out of bounds:  *)
(* lex() never panics on an index.                                         *)
(***************************************************************************)
C3_ReadsInBounds == ~(status = "panic" /\ message = IndexOutOfBounds)

(***************************************************************************)
(* C4: when lex() has returned Ok, the vector returned is not empty, its   *)
(* last token is EOF and no earlier token is.                              *)
(***************************************************************************)
C4_EndsWithOneEOF ==
    status = "done" =>
        /\ Len(ret) >= 1
        /\ ret[Len(ret)].kind = "EOF"
        /\ \A k \in 1..(Len(ret) - 1) : ret[k].kind # "EOF"

C4_Witness == status = "done" /\ Len(ret) >= 3

(***************************************************************************)
(* C5: maximal munch.  A parse_token call that starts on a sign leading    *)
(* byte returns the Sign of the longest catalog spelling found there and   *)
(* consumes exactly the bytes of that spelling.                            *)
(***************************************************************************)
C5_MaximalMunch ==
    [][(status = "scanning" /\ Len(ret) < MaxTokens /\ Ch(Boundary) \in SignLeadingBytes)
          => /\ Emits
             /\ Emitted = [kind |-> "Sign", text |-> LongestSpellingAt(Boundary)]
             /\ i' = Boundary + Len(LongestSpellingAt(Boundary))]_vars

(***************************************************************************)
(* Runs of bytes, as the design document describes them: the first cursor  *)
(* at or after j whose byte is not in the set.  The sentinel is in none of *)
(* the sets, so the run ends inside the buffer.                            *)
(***************************************************************************)
RunEnd(j, bytes) ==
    CHOOSE e \in j..(Len(src) - 1) :
        /\ \A k \in j..(e - 1) : src[k + 1] \in bytes
        /\ src[e + 1] \notin bytes

IdentBytes == LetterBytes \cup DigitBytes \cup {95}

ReservedWords ==
    {<<102, 110>>, <<108, 101, 116>>, <<118, 97, 114>>,
     <<117, 110, 100, 101, 102, 105, 110, 101, 100>>, <<105, 102>>,
     <<101, 108, 105, 102>>, <<101, 108, 115, 101>>, <<109, 111, 100>>,
     <<115, 116, 114, 117, 99, 116>>}

ReservedWordKind(word) ==
    CASE word = <<102, 110>> -> "Fn"
      [] word = <<108, 101, 116>> -> "Let"
      [] word = <<118, 97, 114>> -> "Var"
      [] word = <<117, 110, 100, 101, 102, 105, 110, 101, 100>> -> "Undefined"
      [] word = <<105, 102>> -> "If"
      [] word = <<101, 108, 105, 102>> -> "Elif"
      [] word = <<101, 108, 115, 101>> -> "Else"
      [] word = <<109, 111, 100>> -> "Mod"
      [] word = <<115, 116, 114, 117, 99, 116>> -> "Struct"

(***************************************************************************)
(* C6: a parse_token call that starts on a letter or '_' consumes the      *)
(* maximal run of letters, digits and '_' and returns the keyword token    *)
(* when the run is exactly a reserved word, Identifier of the run          *)
(* otherwise; so no Identifier carries a reserved spelling, and a run      *)
(* that only starts with a reserved word is an Identifier of the whole     *)
(* run.                                                                    *)
(***************************************************************************)
C6_IdentOrKeyword ==
    /\ [][(status = "scanning" /\ Len(ret) < MaxTokens
             /\ Ch(Boundary) \in LetterBytes \cup {95})
            => LET e == RunEnd(Boundary, IdentBytes)
                   run == SubSeq(src, Boundary + 1, e)
               IN /\ Emits
                  /\ i' = e
                  /\ Emitted = IF run \in ReservedWords
                               THEN [kind |-> ReservedWordKind(run), text |-> <<>>]
                               ELSE [kind |-> "Ident", text |-> run]]_vars
    /\ [](\A k \in 1..Len(ret) : ret[k].kind = "Ident" => ret[k].text \notin ReservedWords)

C6_Witness ==
    /\ \E k \in 1..Len(ret) : ret[k] = [kind |-> "Ident", text |-> <<102, 110, 120>>]
    /\ i = 3

(***************************************************************************)
(* C7: a parse_token call that starts on a digit run D not followed by     *)
(* '.' and a digit returns NumLit(D) and leaves the cursor right after D;  *)
(* and when that cursor is on a '.', the next call returns a token for it, *)
(* a Sign that starts with the '.'.                                        *)
(***************************************************************************)
C7_IntegerLiteral ==
    /\ [][(status = "scanning" /\ Len(ret) < MaxTokens /\ Ch(Boundary) \in DigitBytes)
            => LET e == RunEnd(Boundary, DigitBytes) IN
               (~(src[e + 1] = 46 /\ src[e + 2] \in DigitBytes))
                  => /\ Emits
                     /\ i' = e
                     /\ Emitted = [kind |-> "NumLit", text |-> SubSeq(src, Boundary + 1, e)]]_vars
    /\ [][(status = "scanning" /\ Len(ret) > 0 /\ Len(ret) < MaxTokens
             /\ ret[Len(ret)].kind = "NumLit"
             /\ 46 \notin {ret[Len(ret)].text[k] : k \in 1..Len(ret[Len(ret)].text)}
             /\ src[i + 1] = 46)
            => /\ Emits
               /\ Emitted.kind = "Sign"
               /\ Emitted.text[1] = 46
               /\ i' = i + Len(Emitted.text)]_vars

(***************************************************************************)
(* C8: a parse_token call that starts on D1 '.' D2, with D1 and D2         *)
(* maximal non-empty digit runs, returns one NumLit of the whole span and  *)
(* leaves the cursor right after D2.                                       *)
(***************************************************************************)
C8_FractionLiteral ==
    [][(status = "scanning" /\ Len(ret) < MaxTokens /\ Ch(Boundary) \in DigitBytes)
         => LET e1 == RunEnd(Boundary, DigitBytes) IN
            (src[e1 + 1] = 46 /\ src[e1 + 2] \in DigitBytes)
               => LET e2 == RunEnd(e1 + 1, DigitBytes) IN
                  /\ Emits
                  /\ i' = e2
                  /\ Emitted = [kind |-> "NumLit", text |-> SubSeq(src, Boundary + 1, e2)]]_vars

C8_Witness ==
    /\ Len(ret) > 0
    /\ ret[Len(ret)] = [kind |-> "NumLit", text |-> <<49, 46, 49, 49>>]
    /\ i = 4

(***************************************************************************)
(* C9: a parse_token call that starts on a '"' followed by one or more     *)
(* plain bytes and then the sentinel makes lex() fail with the error       *)
(* String Literal Has No End.                                              *)
(***************************************************************************)
PlainBytes == (1..127) \ {34, 92}

C9_UnterminatedString ==
    [][(status = "scanning" /\ Len(ret) < MaxTokens /\ Ch(Boundary) = 34
          /\ src[Boundary + 2] \in PlainBytes
          /\ src[RunEnd(Boundary + 1, PlainBytes) + 1] = 0)
         => (status' = "error" /\ message' = "String Literal Has No End")]_vars

(***************************************************************************)
(* C10: a parse_token call whose first byte after the whitespace starts no *)
(* token family makes lex() fail with Illegal Character; the source        *)
(* let x := 3.14 + y;  fails so on its ';' (cursor 17), after Let,         *)
(* Ident(x), Sign(:=), NumLit(3.14), Sign(+) and Ident(y) were scanned.    *)
(***************************************************************************)
TokenStartBytes ==
    LetterBytes \cup {95} \cup DigitBytes \cup {34, 39} \cup BracketBytes
        \cup SignLeadingBytes \cup {0}

ExampleTokens ==
    << [kind |-> "Let", text |-> <<>>],
       [kind |-> "Ident", text |-> <<120>>],
       [kind |-> "Sign", text |-> <<58, 61>>],
       [kind |-> "NumLit", text |-> <<51, 46, 49, 52>>],
       [kind |-> "Sign", text |-> <<43>>],
       [kind |-> "Ident", text |-> <<121>>] >>

C10_IllegalCharacter ==
    /\ [][(status = "scanning" /\ Len(ret) < MaxTokens
             /\ Ch(Boundary) \notin TokenStartBytes)
            => (status' = "error" /\ message' = "Illegal Character" /\ i' = Boundary)]_vars
    /\ [][(src = Example \o <<0>> /\ status = "scanning" /\ status' # "scanning")
            => /\ ret = ExampleTokens
               /\ status' = "error"
               /\ message' = "Illegal Character"
               /\ i' = 17]_vars

C10_Witness ==
    /\ src = Example \o <<0>>
    /\ status = "error"
    /\ message = "Illegal Character"
    /\ i = 17

(***************************************************************************)
(* C11: on a source that is empty or holds ASCII whitespace only, followed *)
(* by the sentinel, the first parse_token call ends lex(), which returns   *)
(* the vector of the one token EOF.                                        *)
(***************************************************************************)
WhitespaceBytes == {32, 9, 10, 12, 13}

BlankSource ==
    /\ \A k \in 1..(Len(src) - 1) : src[k] \in WhitespaceBytes
    /\ src[Len(src)] = 0

C11_EmptySource ==
    /\ [](BlankSource => (status \in {"scanning", "done"} /\ (status = "scanning" => ret = <<>>)))
    /\ [][(BlankSource /\ status = "scanning" /\ ret = <<>>)
            => (status' = "done" /\ ret' = <<[kind |-> "EOF", text |-> <<>>]>>)]_vars

C11_Witness ==
    /\ src = <<9, 10, 12, 13, 0>>
    /\ status = "done"
    /\ ret = <<[kind |-> "EOF", text |-> <<>>]>>
    /\ i = 4

(***************************************************************************)
(* C12: as soon as parse_token returns an error lex() returns that error,  *)
(* with none of the tokens scanned before it; and once lex() has returned, *)
(* with the error or after EOF, nothing more happens: parse_token is not   *)
(* called again and no token is added.                                     *)
(***************************************************************************)
C12_SingleErrorAbort ==
    /\ [][(status = "scanning" /\ Len(ret) < MaxTokens /\ ParseToken(i).outcome = "err")
            => (status' = "error" /\ message' = ParseToken(i).message)]_vars
    /\ [](status = "error" => ret = <<>>)
    /\ [][(status \in {"error", "done"}) => (vars' = vars)]_vars

C12_Witness ==
    /\ status = "error"
    /\ message = "String Literal Has No End"
    /\ src[1] = 102
    /\ i >= 2
    /\ ret = <<>>

(***************************************************************************)
(* C13: the cursor never moves back: every parse_token call leaves it at   *)
(* or after the cursor at which its sub-scanner started, which is at or    *)
(* after the cursor the call started with.                                 *)
(***************************************************************************)
C13_CursorMonotone ==
    [][(status = "scanning") => (i <= Boundary /\ Boundary <= i' /\ i <= i')]_vars

C13_Witness == status = "scanning" /\ i >= 3 /\ Len(ret) >= 2

(***************************************************************************)
(* C14: a parse_token call whose first byte after the whitespace is the    *)
(* sentinel returns EOF and leaves the cursor on that byte; from then on   *)
(* the cursor stays there, inside the buffer, and a further parse_token    *)
(* call from that state would again return EOF with the cursor unmoved.    *)
(***************************************************************************)
C14_EOFKeepsCursor ==
    /\ [][(status = "scanning" /\ Len(ret) < MaxTokens /\ Ch(Boundary) = 0)
            => (Emits /\ Emitted = [kind |-> "EOF", text |-> <<>>] /\ i' = Boundary)]_vars
    /\ [](status = "done"
            => /\ i < Len(src)
               /\ src[i + 1] = 0
               /\ ParseToken(i).outcome = "ok"
               /\ ParseToken(i).tok = [kind |-> "EOF", text |-> <<>>]
               /\ ParseToken(i).i = i)
    /\ [][(status = "done") => (i' = i)]_vars

C14_Witness ==
    /\ status = "done"
    /\ i = Len(src) - 1
    /\ i >= 2
    /\ src[i] \in WhitespaceBytes
    /\ Len(ret) >= 2

(***************************************************************************)
(* C15: the source of two double quotes lexes to the empty string literal  *)
(* and EOF: lex() returns Ok with [StrLit(empty), EOF].                    *)
(***************************************************************************)
C15_EmptyStringLiteral ==
    (src = <<34, 34, 0>> /\ status # "scanning")
        => (status = "done"
            /\ ret = <<[kind |-> "StrLit", text |-> <<>>], [kind |-> "EOF", text |-> <<>>]>>)

(***************************************************************************)
(* C16: a parse_token call that starts on a single quote followed by a     *)
(* plain byte b returns CharLit(b) when the byte right after b is a single *)
(* quote, and makes lex() fail with Invalid Character Literal when it is   *)
(* not.                                                                    *)
(***************************************************************************)
CharPlainBytes == (1..127) \ {39, 92}

C16_CharacterLiteral ==
    [][(status = "scanning" /\ Len(ret) < MaxTokens /\ Ch(Boundary) = 39
          /\ src[Boundary + 2] \in CharPlainBytes)
         => IF src[Boundary + 3] = 39
            THEN Emits /\ Emitted = [kind |-> "CharLit", text |-> <<src[Boundary + 2]>>]
            ELSE status' = "error" /\ message' = "Invalid Character Literal"]_vars

(***************************************************************************)
(* C17: the text of every NumLit token is a non-empty digit run,           *)
(* optionally followed by one '.' and one or more digits: it neither       *)
(* starts nor ends with '.', and holds at most one.  The source 1.2.3      *)
(* lexes to NumLit(1.2), Sign(.), NumLit(3), EOF.                          *)
(***************************************************************************)
WellFormedNumber(t) ==
    /\ Len(t) >= 1
    /\ \A k \in 1..Len(t) : t[k] \in DigitBytes \cup {46}
    /\ t[1] \in DigitBytes
    /\ t[Len(t)] \in DigitBytes
    /\ Cardinality({k \in 1..Len(t) : t[k] = 46}) <= 1

C17_NumberShape ==
    /\ \A k \in 1..Len(ret) : ret[k].kind = "NumLit" => WellFormedNumber(ret[k].text)
    /\ src = <<49, 46, 50, 46, 51, 0>> => status \in {"scanning", "done"}
    /\ (src = <<49, 46, 50, 46, 51, 0>> /\ status = "done")
          => ret = << [kind |-> "NumLit", text |-> <<49, 46, 50>>],
                      [kind |-> "Sign", text |-> <<46>>],
                      [kind |-> "NumLit", text |-> <<51>>],
                      [kind |-> "EOF", text |-> <<>>] >>

C17_Witness ==
    /\ src = <<49, 46, 50, 46, 51, 0>>
    /\ status = "done"
    /\ Len(ret) = 4

(***************************************************************************)
(* C18: a source D1 '..' D2 or D1 '..=' D2, with D1 and D2 non-empty digit *)
(* runs, lexes to NumLit(D1), Sign(..) or Sign(..=), NumLit(D2), EOF: the  *)
(* number scanner stops before the first '.'.                              *)
(***************************************************************************)
RangeTokens ==
    LET e1 == RunEnd(0, DigitBytes)
        inclusive == src[e1 + 3] = 61
        s2 == IF inclusive THEN e1 + 3 ELSE e1 + 2
    IN << [kind |-> "NumLit", text |-> SubSeq(src, 1, e1)],
          [kind |-> "Sign", text |-> IF inclusive THEN <<46, 46, 61>> ELSE <<46, 46>>],
          [kind |-> "NumLit", text |-> SubSeq(src, s2 + 1, Len(src) - 1)],
          [kind |-> "EOF", text |-> <<>>] >>

RangeSource ==
    LET e1 == RunEnd(0, DigitBytes) IN
    /\ e1 >= 1
    /\ src[e1 + 1] = 46
    /\ src[e1 + 2] = 46
    /\ LET s2 == IF src[e1 + 3] = 61 THEN e1 + 3 ELSE e1 + 2 IN
       /\ src[s2 + 1] \in DigitBytes
       /\ RunEnd(s2, DigitBytes) = Len(src) - 1

C18_RangeIsSplit ==
    RangeSource
        => /\ status \in {"scanning", "done"}
           /\ Len(ret) <= 4
           /\ ret = SubSeq(RangeTokens, 1, Len(ret))
           /\ status = "done" => ret = RangeTokens

C18_Witness ==
    /\ src = <<49, 46, 46, 61, 49, 0>>
    /\ status = "done"
    /\ Len(ret) = 4

(***************************************************************************)
(* Spellings of tokens and the layout of a token sequence over the source. *)
(***************************************************************************)
Spelling(tok) ==
    CASE tok.kind \in {"Ident", "NumLit", "Sign", "Paren"} -> tok.text
      [] tok.kind \in {"EOF", "StrLit", "CharLit"} -> <<>>
      [] OTHER -> CHOOSE w \in ReservedWords : ReservedWordKind(w) = tok.kind

RECURSIVE Spellings(_)
Spellings(tokens) ==
    IF tokens = <<>> THEN <<>> ELSE Spelling(Head(tokens)) \o Spellings(Tail(tokens))

RECURSIVE WithoutWhitespace(_)
WithoutWhitespace(text) ==
    IF text = <<>> THEN <<>>
    ELSE IF Head(text) \in WhitespaceBytes THEN WithoutWhitespace(Tail(text))
    ELSE <<Head(text)>> \o WithoutWhitespace(Tail(text))

\* The cursor of the first 0 byte of the buffer.
FirstZero ==
    CHOOSE z \in 0..(Len(src) - 1) :
        /\ src[z + 1] = 0
        /\ \A k \in 1..z : src[k] # 0

NoQuoteBytes == \A k \in 1..Len(src) : src[k] \notin {34, 39}

\* The tokens ret[k], ret[k + 1], ... lie in the source from cursor pos on, in
\* this order, each after a run of whitespace only, the EOF on a 0 byte.
RECURSIVE CoversFrom(_, _)
CoversFrom(k, pos) ==
    LET b == RunEnd(pos, WhitespaceBytes) IN
    IF k > Len(ret) THEN FALSE
    ELSE IF ret[k].kind = "EOF" THEN k = Len(ret) /\ src[b + 1] = 0
    ELSE /\ Len(Spelling(ret[k])) >= 1
         /\ IsPrefixAt(Spelling(ret[k]), b)
         /\ CoversFrom(k + 1, b + Len(Spelling(ret[k])))

(***************************************************************************)
(* C19, as claimed: when lex() succeeds on a source without quote bytes,   *)
(* the spellings of the tokens returned, concatenated, are the source text *)
(* up to the sentinel (the last byte of the buffer) without its            *)
(* whitespace.                                                             *)
(***************************************************************************)
C19_LosslessToSentinel ==
    (status = "done" /\ NoQuoteBytes)
        => Spellings(ret) = WithoutWhitespace(SubSeq(src, 1, Len(src) - 1))

(***************************************************************************)
(* C19, amended: when lex() succeeds on a source without quote bytes, the  *)
(* tokens returned lie in the source in order, one after the other with    *)
(* only whitespace between them, from the start up to the first 0 byte;    *)
(* their spellings, concatenated, are the source text up to its first 0    *)
(* byte without its whitespace.                                            *)
(***************************************************************************)
C19_LosslessToFirstZero ==
    (status = "done" /\ NoQuoteBytes)
        => /\ CoversFrom(1, 0)
           /\ i = FirstZero
           /\ Spellings(ret) = WithoutWhitespace(SubSeq(src, 1, FirstZero))

C19_Witness ==
    /\ src = <<102, 32, 49, 0, 0>>
    /\ status = "done"
    /\ Len(ret) = 3

(***************************************************************************)
(* C20: the first 0 byte ends lexing.  On a buffer with no quote byte      *)
(* before its first 0 byte, no parse_token call reads a byte after that 0  *)
(* byte and the cursor never passes it, so that two buffers that agree up  *)
(* to and including their first 0 byte give the same result.               *)
(***************************************************************************)
NoQuoteBeforeFirstZero == \A k \in 1..FirstZero : src[k] \notin {34, 39}

C20_FirstZeroEndsLexing ==
    [][(status = "scanning" /\ Len(ret) < MaxTokens /\ NoQuoteBeforeFirstZero)
         => (ParseTokenReadEnd(i) <= FirstZero + 1 /\ i' <= FirstZero)]_vars

====
